---- MODULE Spec2Model ----
(***************************************************************************)
(* Session first-seen register of the QR analytics backend.                *)
(*                                                                         *)
(* The store holds three tables: session_first_seen (the claim rows, with  *)
(* session_id as PRIMARY KEY), qr_scans and social_clicks (the analytics   *)
(* records).  Requests run concurrently, each on a database session of its *)
(* own; a request's position is pc[p].  Three kinds of request exist:      *)
(*   "claim"  a call of is_new_user_atomic (utils_session.py),             *)
(*   "click"  POST /api/social-click, log_social_click (routes/social.py), *)
(*   "scan"   POST /api/scan-log, log_scan (routes/public.py).             *)
(* cleanup_old_sessions is the retention purge.  Every awaited store call  *)
(* may raise.                                                              *)
(***************************************************************************)
EXTENDS Integers, FiniteSets, Sequences, TLC

\* ---------------------------------------------------------------- bounds
NumRequests == 2
MaxTime == 1

Procs == 1..NumRequests
SessionIds == {"s1", "s2"}
NULL == 0
\* ids of branches / QR codes used as descriptive context (NULL: not given)
ContextIds == {NULL, 1}
\* <<action_type, branch_id, qr_code_id>> of the direct claim calls: a scan
\* names its QR code, a click names its branch
ClaimContexts == {<<"qr_scan", NULL, 1>>, <<"social_click", 1, NULL>>}
\* days_old arguments tried by the purge
DaysOld == {0, 1}
\* Python's None, and a key (of the JSON body) or a cookie that is not there
None == "None"
ABSENT == "ABSENT"
\* what a scan request may carry as body field session_id
Bodies == {ABSENT, None, "", "s2"}
\* <<cookie qr_session, body field session_id>> of the click requests tried
ClickInputs ==
    {<<"s1", "s2">>, <<"s1", ABSENT>>, <<"", "s2">>, <<ABSENT, "s2">>,
     <<ABSENT, ABSENT>>, <<"", None>>, <<ABSENT, "">>}

VARIABLES
    session_first_seen, \* committed rows of table session_first_seen
    qr_scans,           \* committed rows of table qr_scans
    social_clicks,      \* committed rows of table social_clicks
    now,                \* the store's clock NOW(), in days
    pc,                 \* pc[p]: position of request p
    req,                \* req[p]: kind and arguments of request p
    pending,            \* pending[p]: rows inserted by p's open transaction
    inserted,           \* inserted[p]: what RETURNING session_id gave p
    is_new,             \* is_new[p]: outcome of p's new-vs-returning decision
    resp,               \* resp[p]: the handler's HTTP response body
    failed,             \* failed[p]: the store calls of p that raised
    seen_new,           \* seen_new[p]: calls that had returned True when p began
    purged,             \* callers whose claim row a purge has deleted
    qr_codes,           \* committed rows of table qr_codes
    qr_code,            \* qr_code[p]: the QRCode row request p has loaded
    report,             \* the analytics request: position and counts read
    purge_days,         \* the days_old argument of the last purge run
    deleted_count       \* what the last purge run returned (-1: none ran)

vars == <<session_first_seen, qr_scans, social_clicks, now, pc, req, pending,
          inserted, is_new, resp, failed, seen_new, purged, purge_days,
          deleted_count, qr_codes, qr_code, report>>

NoReq == [kind |-> "none"]
NoResp == [status |-> "none"]

\* ------------------------------------------------------------- the store

\* A row of session_first_seen (models.py SessionFirstSeen).  first_seen_at
\* and created_at are both server_default=func.now(); `by` tags the request
\* whose INSERT wrote the row (bookkeeping, not a column).
Row(p, s, a, b, q, t) ==
    [session_id |-> s, first_action_type |-> a, first_branch_id |-> b,
     first_qr_code_id |-> q, first_seen_at |-> t, created_at |-> t, by |-> p]

RowsOf(s) == {r \in session_first_seen : r.session_id = s}

\* Conflict without the primary key: the INSERT never finds a conflict.
Conflict_Never(s) == FALSE

\* Conflict on a key that ignores session_id: any row conflicts.
Conflict_AnyRow(s) == session_first_seen # {}

\* ON CONFLICT (session_id): a committed row with this primary key exists.
Conflict(s) == \E r \in session_first_seen : r.session_id = s

\* An INSERT that does not wait for a concurrent uncommitted row (an
\* existence check followed by an insert).
LockedByOther_NoWait(p, s) == FALSE

\* A concurrent transaction holds an uncommitted row with this key: the
\* store makes the INSERT wait until that transaction commits or rolls back.
LockedByOther(p, s) ==
    \E q \in Procs \ {p} : \E r \in pending[q] : r.session_id = s

\* The requests and the session tables at the start.
InitSessions ==
    /\ session_first_seen = {}
    /\ qr_scans = {}
    /\ social_clicks = {}
    /\ now = 0
    /\ pc = [p \in Procs |-> "idle"]
    /\ req = [p \in Procs |-> NoReq]
    /\ pending = [p \in Procs |-> {}]
    /\ inserted = [p \in Procs |-> "unset"]
    /\ is_new = [p \in Procs |-> "unset"]
    /\ resp = [p \in Procs |-> NoResp]
    /\ failed = [p \in Procs |-> {}]
    /\ seen_new = [p \in Procs |-> {}]
    /\ purged = {}
    /\ purge_days = -1
    /\ deleted_count = -1
    /\ qr_code = [p \in Procs |-> NoReq]
    /\ report = [pc |-> "idle"]

Init == InitSessions /\ qr_codes = {}

\* Requests are numbered in their order of arrival.
MayStart(p) == pc[p] = "idle" /\ \A q \in Procs : q < p => pc[q] # "idle"

\* Session ids are opaque: the first request's id is called "s1".
SessionsFor(p) == IF p = 1 THEN {"s1"} ELSE SessionIds

\* Action type and context are opaque to the claim as well: the first direct
\* call is the scan's.
ContextsFor(p) == IF p = 1 THEN {<<"qr_scan", NULL, 1>>} ELSE ClaimContexts

ReturnedNew == {q \in Procs : is_new[q] = "true"}

\* -------------------------------------------- is_new_user_atomic (claim)

\* The handler's frame: what a step of the claim operation leaves alone.
ClaimFrame == UNCHANGED <<qr_scans, social_clicks, now, purged, purge_days,
                          deleted_count, qr_codes, qr_code, report>>

\* A handler without its `except Exception`: the exception reaches the client.
Error_Unhandled == [status |-> "exception"]

\* return {"status": "error"}
Error == [status |-> "error"]

\* A caller that gives up once the claim has returned: no record is written.
AfterClaim_Stop(kind) == "done"

\* Where a claim operation that returned goes on: back in its caller.
AfterClaim(kind) == IF kind = "click" THEN "k_commit" ELSE "done"

\* Handlers that roll back and try the insert again.
Degrade_Retry(p, kind, call) ==
    /\ pending' = [pending EXCEPT ![p] = {}]
    /\ pc' = [pc EXCEPT ![p] = "c_execute"]
    /\ failed' = [failed EXCEPT ![p] = @ \cup {call}]
    /\ UNCHANGED <<is_new, resp>>

\* Handlers that roll back and raise the exception again.
Degrade_Reraise(p, kind, call) ==
    /\ pending' = [pending EXCEPT ![p] = {}]
    /\ is_new' = [is_new EXCEPT ![p] = "raised"]
    /\ pc' = [pc EXCEPT ![p] = "done"]
    /\ failed' = [failed EXCEPT ![p] = @ \cup {call}]
    /\ resp' = [resp EXCEPT ![p] = IF kind = "click" THEN Error ELSE @]

\* except IntegrityError / except Exception, entered when store call `call`
\* raised: await db.rollback(); return False.  The rollback is awaited
\* outside any try: when it raises too, the exception leaves
\* is_new_user_atomic; in log_social_click it reaches the handler's own
\* `except Exception: return {"status": "error"}`.  Either way the open
\* transaction is gone (rolled back, or aborted with its connection).
Degrade(p, kind, call) ==
    /\ pending' = [pending EXCEPT ![p] = {}]
    /\ \/ /\ is_new' = [is_new EXCEPT ![p] = "false"]
          /\ pc' = [pc EXCEPT ![p] = AfterClaim(kind)]
          /\ failed' = [failed EXCEPT ![p] = @ \cup {call}]
          /\ UNCHANGED resp
       \/ /\ is_new' = [is_new EXCEPT ![p] = "raised"]
          /\ pc' = [pc EXCEPT ![p] = "done"]
          /\ failed' = [failed EXCEPT ![p] = @ \cup {call, "rollback"}]
          /\ resp' = [resp EXCEPT ![p] = IF kind = "click" THEN Error ELSE @]

\* await db.execute(INSERT INTO session_first_seen ... VALUES (r)
\*                  ON CONFLICT (session_id) DO NOTHING RETURNING session_id)
\* for the request r of p, or the store error it raises.
Insert(p, r) ==
    \/ /\ ~LockedByOther(p, r.session_id)
       /\ IF Conflict(r.session_id)
          THEN /\ inserted' = [inserted EXCEPT ![p] = "NULL"]
               /\ UNCHANGED pending
          ELSE /\ inserted' = [inserted EXCEPT ![p] = r.session_id]
               /\ pending' = [pending EXCEPT ![p] =
                     {Row(p, r.session_id, r.action_type, r.branch_id,
                          r.qr_code_id, now)}]
       /\ pc' = [pc EXCEPT ![p] = "c_commit"]
       /\ UNCHANGED <<failed, is_new, resp>>
    \/ /\ Degrade(p, r.kind, "execute")
       /\ UNCHANGED inserted

\* A direct call is_new_user_atomic(db, session_id, action_type, branch_id,
\* qr_code_id), up to and including its db.execute.
StartClaim(p) ==
    /\ MayStart(p)
    /\ \E s \in SessionsFor(p), c \in ContextsFor(p) :
          /\ req' = [req EXCEPT ![p] = [kind |-> "claim", session_id |-> s,
                                        action_type |-> c[1], branch_id |-> c[2],
                                        qr_code_id |-> c[3]]]
          /\ Insert(p, req'[p])
    /\ seen_new' = [seen_new EXCEPT ![p] = ReturnedNew]
    /\ UNCHANGED session_first_seen
    /\ ClaimFrame

\* The db.execute of the call made by log_social_click.
ClaimExecute(p) ==
    /\ pc[p] = "c_execute"
    /\ Insert(p, req[p])
    /\ UNCHANGED <<session_first_seen, req, seen_new>>
    /\ ClaimFrame

\* A claim that goes on without its commit: the inserted row is dropped
\* with the transaction.
ClaimCommit_NotPersisted(p) ==
    /\ pc[p] = "c_commit"
    /\ pending' = [pending EXCEPT ![p] = {}]
    /\ pc' = [pc EXCEPT ![p] = "c_read"]
    /\ UNCHANGED <<session_first_seen, failed, is_new, resp, inserted, req,
                   seen_new>>
    /\ ClaimFrame

\* A commit of ON CONFLICT (session_id) DO UPDATE SET first_action_type = ...:
\* the row of the session id takes the values of the latest call.
ClaimCommit_Update(p) ==
    /\ pc[p] = "c_commit"
    /\ session_first_seen' =
          {[r EXCEPT !.first_action_type = req[p].action_type] :
              r \in RowsOf(req[p].session_id)}
          \cup (session_first_seen \ RowsOf(req[p].session_id))
          \cup pending[p]
    /\ pending' = [pending EXCEPT ![p] = {}]
    /\ pc' = [pc EXCEPT ![p] = "c_read"]
    /\ UNCHANGED <<failed, is_new, resp, inserted, req, seen_new>>
    /\ ClaimFrame

\* await db.commit()
ClaimCommit(p) ==
    /\ pc[p] = "c_commit"
    /\ \/ /\ session_first_seen' = session_first_seen \cup pending[p]
          /\ pending' = [pending EXCEPT ![p] = {}]
          /\ pc' = [pc EXCEPT ![p] = "c_read"]
          /\ UNCHANGED <<failed, is_new, resp>>
       \/ /\ Degrade(p, req[p].kind, "commit")
          /\ UNCHANGED session_first_seen
    /\ UNCHANGED <<inserted, req, seen_new>>
    /\ ClaimFrame

\* `if result:` in place of `if inserted:`: a result object is always true.
Inserted_ResultTruthy(v) == TRUE

\* inserted = result.scalar_one_or_none(); if inserted: ...
Inserted(v) == v # "NULL"

\* return True / return False after the commit.
\* These statements run after the commit took effect and inside the try: an
\* exception here (the commit's acknowledgement lost, a statement of lines
\* 84-90 raising) reaches `except Exception`.
ClaimRead(p) ==
    /\ pc[p] = "c_read"
    /\ \/ /\ is_new' = [is_new EXCEPT ![p] =
                           IF Inserted(inserted[p]) THEN "true" ELSE "false"]
          /\ pc' = [pc EXCEPT ![p] = AfterClaim(req[p].kind)]
          /\ UNCHANGED <<failed, pending, resp>>
       \/ Degrade(p, req[p].kind, "read")
    /\ UNCHANGED <<session_first_seen, inserted, req, seen_new>>
    /\ ClaimFrame

is_new_user_atomic(p) ==
    \/ ClaimExecute(p)
    \/ ClaimCommit(p)
    \/ ClaimRead(p)

\* ------------------------------------------------ the request's session id

\* dict.get(key, default) on a key holding v
Get(v, default) == IF v = ABSENT THEN default ELSE v

\* Python truth of a session id value: None and "" are false.
Truthy(v) == v # None /\ v # ""

\* str(uuid.uuid4()): an id no other request carries
Uuid(p) == "uuid-" \o ToString(p)

\* The priority turned round: frontend > cookie > new
ClickSession_BodyFirst(cookie, body, fresh) ==
    LET frontend_session == Get(body, "")
        cookie_session == Get(cookie, None)
    IN  IF Truthy(frontend_session) THEN frontend_session
        ELSE IF Truthy(cookie_session) THEN cookie_session
        ELSE fresh

\* log_social_click, lines 73-86: cookie > frontend > new
ClickSession(cookie, body, fresh) ==
    LET frontend_session == Get(body, "")
        cookie_session == Get(cookie, None)
    IN  IF Truthy(cookie_session) THEN cookie_session
        ELSE IF Truthy(frontend_session) THEN frontend_session
        ELSE fresh

\* log_scan, line 222: session_id = data.get("session_id", str(uuid.uuid4()))
ScanSession(body, fresh) == Get(body, fresh)

\* ----------------------------------------- log_social_click (POST click)

\* Lines 68-95: the body is parsed, the session id and the branch resolved.
\* An exception there (request.json(), the branch SELECT) reaches the
\* handler's `except Exception: return {"status": "error"}`.
StartClickWith(p, cookie, body, b) ==
    /\ MayStart(p)
    /\ req' = [req EXCEPT ![p] =
                  [kind |-> "click",
                   session_id |-> ClickSession(cookie, body, Uuid(p)),
                   action_type |-> "social_click",
                   branch_id |-> b, qr_code_id |-> NULL,
                   cookie |-> cookie, body |-> body]]
    /\ seen_new' = [seen_new EXCEPT ![p] = ReturnedNew]
    /\ \/ /\ pc' = [pc EXCEPT ![p] = "c_execute"]
          /\ UNCHANGED <<failed, resp>>
       \/ /\ pc' = [pc EXCEPT ![p] = "done"]
          /\ resp' = [resp EXCEPT ![p] = Error]
          /\ failed' = [failed EXCEPT ![p] = @ \cup {"prepare"}]
    /\ UNCHANGED <<session_first_seen, qr_scans, social_clicks, now, pending,
                   inserted, is_new, purged, purge_days, deleted_count,
                   qr_codes, qr_code, report>>

\* A click of the page's script: no cookie, the session id in the body.
StartClick(p) ==
    \E s \in SessionsFor(p), b \in ContextIds : StartClickWith(p, ABSENT, s, b)

\* No request is being served.
Quiet == \A q \in Procs : pc[q] \in {"idle", "done"}

\* A click of any client, arriving when no other request is being served:
\* whatever cookie and body field it carries.
StartClickRaw(p) ==
    /\ Quiet
    /\ \E i \in ClickInputs : StartClickWith(p, i[1], i[2], NULL)

\* A row of social_clicks / qr_scans: the fields the new-vs-returning
\* accounting reads; `by` tags the request that wrote it.
Record(p, s, n) == [session_id |-> s, is_new_user |-> n, by |-> p]

\* A SocialClick built without is_new_user: the column default, True.
ClickRecord_Default(p) == Record(p, req[p].session_id, TRUE)

\* click = SocialClick(..., session_id=session_id, is_new_user=is_new)
ClickRecord(p) == Record(p, req[p].session_id, is_new[p] = "true")

\* return {"status": "success", "is_new_user": is_new}
Success(p) == [status |-> "success", is_new_user |-> (is_new[p] = "true")]

\* db.add(click); await db.commit(); return {"status": "success", ...}; or
\* the commit raises and the handler returns {"status": "error"}, with the
\* record not committed, or committed when the exception came after the
\* commit took effect.
ClickCommit(p) ==
    /\ pc[p] = "k_commit"
    /\ \/ /\ social_clicks' = social_clicks \cup {ClickRecord(p)}
          /\ resp' = [resp EXCEPT ![p] = Success(p)]
          /\ UNCHANGED failed
       \/ /\ \/ UNCHANGED social_clicks
             \/ social_clicks' = social_clicks \cup {ClickRecord(p)}
          /\ resp' = [resp EXCEPT ![p] = Error]
          /\ failed' = [failed EXCEPT ![p] = @ \cup {"record"}]
    /\ pc' = [pc EXCEPT ![p] = "done"]
    /\ UNCHANGED <<session_first_seen, qr_scans, now, req, pending, inserted,
                   is_new, seen_new, purged, purge_days, deleted_count,
                   qr_codes, qr_code, report>>

log_social_click(p) ==
    \/ StartClick(p)
    \/ is_new_user_atomic(p)
    \/ ClickCommit(p)

\* ------------------------------------------------- log_scan (POST scan)

ScanFrame == UNCHANGED <<session_first_seen, social_clicks, now, pending,
                         inserted, purged, purge_days, deleted_count,
                         qr_codes, qr_code, report>>

\* A store error (or a malformed body) inside log_scan's try:
\* except Exception: return {"status": "error"}
ScanFails(p, call) ==
    /\ pc' = [pc EXCEPT ![p] = "done"]
    /\ resp' = [resp EXCEPT ![p] = Error]
    /\ failed' = [failed EXCEPT ![p] = @ \cup {call}]

\* Lines 216-225: body parsed, session_id = data.get("session_id", uuid4()).
StartScanWith(p, body) ==
    /\ MayStart(p)
    /\ req' = [req EXCEPT ![p] =
                  [kind |-> "scan",
                   session_id |-> ScanSession(body, Uuid(p)),
                   action_type |-> "qr_scan",
                   branch_id |-> NULL, qr_code_id |-> 1,
                   cookie |-> ABSENT, body |-> body]]
    /\ seen_new' = [seen_new EXCEPT ![p] = ReturnedNew]
    /\ \/ /\ pc' = [pc EXCEPT ![p] = "s_check_scans"]
          /\ UNCHANGED <<failed, resp>>
       \/ ScanFails(p, "prepare")
    /\ UNCHANGED <<qr_scans, is_new>>
    /\ ScanFrame

\* A scan logged by the scan page's script: the session id in the body.
StartScan(p) == \E s \in SessionsFor(p) : StartScanWith(p, s)

\* A scan logged by any client, arriving when no other request is being
\* served: whatever body field it carries.
StartScanRaw(p) == Quiet /\ \E f \in Bodies : StartScanWith(p, f)

\* is_new_user, first query: select(QRScan.id).where(session_id == ...).
\* A hit returns False, no hit goes on to the second query.
IsNewUserScans(p) ==
    /\ pc[p] = "s_check_scans"
    /\ \/ /\ IF \E r \in qr_scans : r.session_id = req[p].session_id
             THEN /\ is_new' = [is_new EXCEPT ![p] = "false"]
                  /\ pc' = [pc EXCEPT ![p] = "s_commit"]
             ELSE /\ pc' = [pc EXCEPT ![p] = "s_check_clicks"]
                  /\ UNCHANGED is_new
          /\ UNCHANGED <<failed, resp>>
       \/ /\ ScanFails(p, "select")
          /\ UNCHANGED is_new
    /\ UNCHANGED <<qr_scans, req, seen_new>>
    /\ ScanFrame

\* is_new_user, second query: select(SocialClick.id).where(...);
\* return social_exists is None.
IsNewUserClicks(p) ==
    /\ pc[p] = "s_check_clicks"
    /\ \/ /\ is_new' = [is_new EXCEPT ![p] =
                IF \E r \in social_clicks : r.session_id = req[p].session_id
                THEN "false" ELSE "true"]
          /\ pc' = [pc EXCEPT ![p] = "s_commit"]
          /\ UNCHANGED <<failed, resp>>
       \/ /\ ScanFails(p, "select")
          /\ UNCHANGED is_new
    /\ UNCHANGED <<qr_scans, req, seen_new>>
    /\ ScanFrame

is_new_user(p) == IsNewUserScans(p) \/ IsNewUserClicks(p)

\* scan = QRScan(..., session_id=session_id, is_new_user=is_new)
ScanRecord(p) == Record(p, req[p].session_id, is_new[p] = "true")

\* db.add(scan); await db.commit(); return {"status": "success", ...}; or
\* the commit raises, as in ClickCommit.
ScanCommit(p) ==
    /\ pc[p] = "s_commit"
    /\ \/ /\ qr_scans' = qr_scans \cup {ScanRecord(p)}
          /\ resp' = [resp EXCEPT ![p] = Success(p)]
          /\ pc' = [pc EXCEPT ![p] = "done"]
          /\ UNCHANGED failed
       \/ /\ \/ UNCHANGED qr_scans
             \/ qr_scans' = qr_scans \cup {ScanRecord(p)}
          /\ ScanFails(p, "record")
    /\ UNCHANGED <<is_new, req, seen_new>>
    /\ ScanFrame

log_scan(p) ==
    \/ StartScan(p)
    \/ is_new_user(p)
    \/ ScanCommit(p)

\* ------------------------------------------- cleanup_old_sessions (purge)

\* A DELETE without its WHERE clause: every row goes.
Expired_All(days_old) == session_first_seen

\* DELETE FROM session_first_seen WHERE created_at < NOW() - days_old days
Expired(days_old) ==
    {r \in session_first_seen : r.created_at < now - days_old}

\* In deleted_count: the run returned nothing, an exception left it.
RAISED == -2

\* except Exception: await db.rollback(); return 0.  The rollback is awaited
\* outside any try: when it raises too, the exception leaves the function.
PurgeFails == deleted_count' \in {0, RAISED}

\* One run of cleanup_old_sessions(db, days_old): the DELETE and its commit,
\* returning the number of deleted rows.  The DELETE waits for open
\* transactions on the rows it removes, so a run is one step among the
\* claims.  The second branch is a run whose DELETE or commit raises: a
\* store error, or a driver that rejects the statement (its :days parameter
\* stands inside the quoted INTERVAL literal).  The third is an exception
\* after the commit took effect (its acknowledgement lost, lines 171-173
\* raising).
cleanup_old_sessions(days_old) ==
    /\ purge_days' = days_old
    /\ \/ /\ session_first_seen' = session_first_seen \ Expired(days_old)
          /\ purged' = purged \cup {r.by : r \in Expired(days_old)}
          /\ deleted_count' = Cardinality(Expired(days_old))
       \/ /\ PurgeFails
          /\ UNCHANGED <<session_first_seen, purged>>
       \/ /\ PurgeFails
          /\ session_first_seen' = session_first_seen \ Expired(days_old)
          /\ purged' = purged \cup {r.by : r \in Expired(days_old)}
    /\ UNCHANGED <<qr_scans, social_clicks, now, pc, req, pending, inserted,
                   is_new, resp, failed, seen_new, qr_codes, qr_code, report>>

\* A day passes on the store's clock.
Tick ==
    /\ now < MaxTime
    /\ now' = now + 1
    /\ UNCHANGED <<session_first_seen, qr_scans, social_clicks, pc, req,
                   pending, inserted, is_new, resp, failed, seen_new, purged,
                   purge_days, deleted_count, qr_codes, qr_code, report>>

\* ------------------------------------------------- QR codes (routes/qr.py)

\* current_user: two ordinary users and a super admin.
Users ==
    {[id |-> 1, is_super_admin |-> FALSE],
     [id |-> 2, is_super_admin |-> FALSE],
     [id |-> 3, is_super_admin |-> TRUE]}

\* QRCode.code values and target urls.
Codes == {"A", "B"}
Urls == {"u1", "u2"}

\* The qr_id path parameter: the id of the first row, and an unknown id.
QrIds == {1, 2}

\* The QR code the management requests are about: user 1 created it.
FirstQr ==
    [id |-> 1, code |-> "A", target_url |-> "u1", is_active |-> TRUE,
     created_by |-> 1]

InitQr == InitSessions /\ qr_codes = {FirstQr}

\* QRCodeUpdate: both fields are Optional and default to None; a field that
\* is None is left out of the record.
QrUpdates ==
    {[is_active |-> FALSE], [is_active |-> TRUE], [target_url |-> "u2"],
     [target_url |-> "u2", is_active |-> FALSE]}

\* The QR routes leave the session tables and the analytics records alone.
QrFrame == UNCHANGED <<session_first_seen, qr_scans, social_clicks, now,
                       pending, inserted, is_new, seen_new, purged,
                       purge_days, deleted_count, report>>

\* raise HTTPException(status_code=...)
Http(code) == [status |-> code]

\* The request ends with response r.
Responds(p, r) ==
    /\ resp' = [resp EXCEPT ![p] = r]
    /\ pc' = [pc EXCEPT ![p] = "done"]

\* An awaited store call raises: except Exception ... raise HTTPException(500).
QrFails(p) ==
    /\ failed' = [failed EXCEPT ![p] = @ \cup {"store"}]
    /\ Responds(p, Http("500"))

\* Every user passes the check.
MayAccess_Anyone(user, q) == TRUE

\* if not current_user.is_super_admin and qr_code.created_by != current_user.id:
\*     raise HTTPException(status_code=403)
MayAccess(user, q) == user.is_super_admin \/ q.created_by = user.id

\* Rows of qr_codes with the id / the code.
QrById(id) == {q \in qr_codes : q.id = id}
QrByCode(code) == {q \in qr_codes : q.code = code}

\* create_qr_code, first part: SELECT by code; an existing row is 400
\* "already exists".
CreateCheck(p) ==
    /\ MayStart(p)
    /\ \E u \in Users, c \in Codes, t \in Urls :
         req' = [req EXCEPT ![p] =
                   [kind |-> "create", user |-> u, code |-> c,
                    target_url |-> t]]
    /\ \/ /\ QrByCode(req'[p].code) # {}
          /\ Responds(p, Http("400"))
          /\ UNCHANGED failed
       \/ /\ QrByCode(req'[p].code) = {}
          /\ pc' = [pc EXCEPT ![p] = "q_commit"]
          /\ UNCHANGED <<resp, failed>>
       \/ QrFails(p)
    /\ UNCHANGED <<qr_codes, qr_code>>
    /\ QrFrame

\* new_qr = QRCode(code, target_url, created_by=current_user.id,
\* is_active=True).  The id comes from a sequence: the request's number.
NewQr(p) ==
    [id |-> p, code |-> req[p].code, target_url |-> req[p].target_url,
     is_active |-> TRUE, created_by |-> req[p].user.id]

\* create_qr_code, second part: db.add(new_qr); await db.commit(); refresh;
\* return 201.  qr_codes.code is UNIQUE: the INSERT of a code that another
\* request committed meanwhile raises IntegrityError, which except Exception
\* turns into 500 "Failed to create QR code".  The commit or the refresh may
\* raise as well.
CreateCommit(p) ==
    /\ pc[p] = "q_commit"
    /\ \/ /\ QrByCode(req[p].code) = {}
          /\ qr_codes' = qr_codes \cup {NewQr(p)}
          /\ Responds(p, [status |-> "201", body |-> NewQr(p)])
          /\ UNCHANGED failed
       \/ /\ QrByCode(req[p].code) # {}
          /\ Responds(p, Http("500"))
          /\ UNCHANGED <<qr_codes, failed>>
       \/ /\ \/ UNCHANGED qr_codes
             \/ /\ QrByCode(req[p].code) = {}
                /\ qr_codes' = qr_codes \cup {NewQr(p)}
          /\ QrFails(p)
    /\ UNCHANGED <<req, qr_code>>
    /\ QrFrame

create_qr_code(p) == CreateCheck(p) \/ CreateCommit(p)

\* A read of one QR code by id: 404 without the row, 403 when the route
\* checks the creator and the user does not pass, else the row's content.
ReadQr(p, kind, checked) ==
    /\ MayStart(p)
    /\ \E u \in Users, id \in QrIds :
         req' = [req EXCEPT ![p] = [kind |-> kind, user |-> u, qr_id |-> id]]
    /\ \/ /\ QrById(req'[p].qr_id) = {}
          /\ Responds(p, Http("404"))
          /\ UNCHANGED failed
       \/ /\ \E q \in QrById(req'[p].qr_id) :
               IF checked /\ ~MayAccess(req'[p].user, q)
               THEN Responds(p, Http("403"))
               ELSE Responds(p, [status |-> "200", body |-> q])
          /\ UNCHANGED failed
       \/ QrFails(p)
    /\ UNCHANGED <<qr_codes, qr_code>>
    /\ QrFrame

\* get_qr_code: SELECT, 404, the creator check, the row.
get_qr_code(p) == ReadQr(p, "get", TRUE)

\* get_qr_image: SELECT, 404, the creator check, the image of the code.
get_qr_image(p) == ReadQr(p, "image", TRUE)

\* get_qr_analytics: SELECT by id and 404 only; no check of the creator.
get_qr_analytics(p) == ReadQr(p, "analytics", FALSE)

\* update_qr_code and delete_qr_code, first part: SELECT by id, 404, the
\* creator check; the loaded row stays in the request's session.
LoadQr(p, r, next) ==
    /\ MayStart(p)
    /\ req' = [req EXCEPT ![p] = r]
    /\ \/ /\ QrById(r.qr_id) = {}
          /\ Responds(p, Http("404"))
          /\ UNCHANGED <<failed, qr_code>>
       \/ /\ \E q \in QrById(r.qr_id) :
               IF MayAccess(r.user, q)
               THEN /\ qr_code' = [qr_code EXCEPT ![p] = q]
                    /\ pc' = [pc EXCEPT ![p] = next]
                    /\ UNCHANGED resp
               ELSE /\ Responds(p, Http("403"))
                    /\ UNCHANGED qr_code
          /\ UNCHANGED failed
       \/ /\ QrFails(p)
          /\ UNCHANGED qr_code
    /\ UNCHANGED qr_codes
    /\ QrFrame

UpdateSelect(p) ==
    \E u \in Users, id \in QrIds, upd \in QrUpdates :
        LoadQr(p, [kind |-> "update", user |-> u, qr_id |-> id,
                   update |-> upd], "u_commit")

\* The row as the UPDATE leaves it: the statement sets the attributes whose
\* value changed on the loaded object (and updated_at), nothing else.
Updated(cur, old, upd) ==
    [cur EXCEPT
       !.target_url = IF "target_url" \in DOMAIN upd
                         /\ upd.target_url # old.target_url
                      THEN upd.target_url ELSE @,
       !.is_active = IF "is_active" \in DOMAIN upd
                        /\ upd.is_active # old.is_active
                     THEN upd.is_active ELSE @]

\* update_qr_code, second part: await db.commit(); refresh; return the row.
\* An UPDATE that matches no row (the row was deleted meanwhile) raises, and
\* so may the commit or the reads after it: 500.
UpdateCommit(p) ==
    /\ pc[p] = "u_commit"
    /\ LET old == qr_code[p]
           upd == req[p].update
           after == {Updated(q, old, upd) : q \in QrById(old.id)}
           written == (qr_codes \ QrById(old.id)) \cup after
       IN  \/ /\ after # {}
              /\ qr_codes' = written
              /\ \E q \in after : Responds(p, [status |-> "200", body |-> q])
              /\ UNCHANGED failed
           \/ /\ after = {}
              /\ Responds(p, Http("500"))
              /\ UNCHANGED <<qr_codes, failed>>
           \/ /\ qr_codes' \in {qr_codes, written}
              /\ QrFails(p)
    /\ UNCHANGED <<req, qr_code>>
    /\ QrFrame

update_qr_code(p) == UpdateSelect(p) \/ UpdateCommit(p)

DeleteSelect(p) ==
    \E u \in Users, id \in QrIds :
        LoadQr(p, [kind |-> "delete", user |-> u, qr_id |-> id], "d_commit")

\* delete_qr_code, second part: await db.delete(qr_code); await db.commit();
\* 204.  A DELETE that matches no row is only a warning.  (The scans of the
\* code go with it; no scan is recorded where this action runs.)
DeleteCommit(p) ==
    /\ pc[p] = "d_commit"
    /\ LET written == qr_codes \ QrById(qr_code[p].id)
       IN  \/ /\ qr_codes' = written
              /\ Responds(p, Http("204"))
              /\ UNCHANGED failed
           \/ /\ qr_codes' \in {qr_codes, written}
              /\ QrFails(p)
    /\ UNCHANGED <<req, qr_code>>
    /\ QrFrame

delete_qr_code(p) == DeleteSelect(p) \/ DeleteCommit(p)

\* A page is served although the code is deactivated.
Served_AnyState(q) == TRUE

\* if not is_active: raise HTTPException(status_code=410)
Served(q) == q.is_active

\* redirect_qr (GET /r/{code}): SELECT by code; 404 without a row, 410 when
\* the row is not active, else the page that redirects to target_url.
redirect_qr(p) ==
    /\ MayStart(p)
    /\ \E c \in Codes : req' = [req EXCEPT ![p] = [kind |-> "redirect", code |-> c]]
    /\ \/ /\ QrByCode(req'[p].code) = {}
          /\ Responds(p, Http("404"))
          /\ UNCHANGED failed
       \/ /\ \E q \in QrByCode(req'[p].code) :
               IF Served(q)
               THEN Responds(p, [status |-> "200", body |-> q.target_url])
               ELSE Responds(p, Http("410"))
          /\ UNCHANGED failed
       \/ QrFails(p)
    /\ UNCHANGED <<qr_codes, qr_code>>
    /\ QrFrame

\* ------------------------------ new vs returning (routes/analytics.py)

\* The counts are reads: no table and no request changes.
ReportFrame == UNCHANGED <<session_first_seen, qr_scans, social_clicks, now,
                           pc, req, pending, inserted, is_new, resp, failed,
                           seen_new, purged, purge_days, deleted_count,
                           qr_codes, qr_code>>

\* select(func.count()) over the rows of a table with one value of
\* is_new_user; the filters of the request select every row.
CountWhere(table, flag) == Cardinality({r \in table : r.is_new_user = flag})

\* One awaited count of the analytics request: the value read now is kept
\* under name field and the request moves on; or the store call raises (the
\* route has no handler: the request fails).
Counts(at, field, value, next) ==
    /\ report.pc = at
    /\ \/ report' = [f \in DOMAIN report \cup {field} |->
                        IF f = "pc" THEN next
                        ELSE IF f = field THEN value ELSE report[f]]
       \/ report' = [pc |-> "failed"]
    /\ ReportFrame

\* get_region_analytics: total_qr_scans and total_social_clicks, each with a
\* statement of its own.
CountScans == Counts("idle", "total_qr_scans", Cardinality(qr_scans), "a_clicks")

CountClicks ==
    Counts("a_clicks", "total_social_clicks", Cardinality(social_clicks),
           "a_qr_new")

\* calculate_new_vs_returning: four more statements on the same base queries.
CountQrNew == Counts("a_qr_new", "qr_new", CountWhere(qr_scans, TRUE), "a_qr_ret")

CountQrReturning ==
    Counts("a_qr_ret", "qr_returning", CountWhere(qr_scans, FALSE), "a_soc_new")

CountSocialNew ==
    Counts("a_soc_new", "social_new", CountWhere(social_clicks, TRUE),
           "a_soc_ret")

CountSocialReturning ==
    Counts("a_soc_ret", "social_returning", CountWhere(social_clicks, FALSE),
           "done")

\* total_new = qr_new + social_new; total_returning = qr_returning +
\* social_returning; combined_total = total_qr_scans + total_social_clicks.
\* (The two percentages of NewVsReturning are derived from these.)
RegionAnalytics ==
    [combined_total |-> report.total_qr_scans + report.total_social_clicks,
     new_users |-> report.qr_new + report.social_new,
     returning_users |-> report.qr_returning + report.social_returning]

calculate_new_vs_returning ==
    CountQrNew \/ CountQrReturning \/ CountSocialNew \/ CountSocialReturning

get_region_analytics == CountScans \/ CountClicks \/ calculate_new_vs_returning

\* ------------------------------------------------------- specifications

Retention == (\E d \in DaysOld : cleanup_old_sessions(d)) \/ Tick

\* The claim operation under concurrent callers, with the retention purge.
NextClaim ==
    \/ \E p \in Procs : StartClaim(p)
    \/ \E p \in Procs : ClaimCommit(p) \/ ClaimRead(p)
    \/ Retention

SpecClaim == Init /\ [][NextClaim]_vars

\* The two logging endpoints under concurrent requests.
NextLog ==
    \/ \E p \in Procs : log_social_click(p)
    \/ \E p \in Procs : log_scan(p)

SpecLog == Init /\ [][NextLog]_vars

\* The two logging endpoints under requests of any client, served one after
\* another.
NextIds ==
    \/ \E p \in Procs : StartClickRaw(p) \/ is_new_user_atomic(p)
                            \/ ClickCommit(p)
    \/ \E p \in Procs : StartScanRaw(p) \/ is_new_user(p) \/ ScanCommit(p)

SpecIds == Init /\ [][NextIds]_vars

\* The click endpoint alone under requests of any client.
NextClickIds ==
    \E p \in Procs : StartClickRaw(p) \/ is_new_user_atomic(p) \/ ClickCommit(p)

SpecClickIds == Init /\ [][NextClickIds]_vars

\* Everything together.
Next ==
    \/ \E p \in Procs : StartClaim(p)
    \/ \E p \in Procs : log_social_click(p)
    \/ \E p \in Procs : log_scan(p)
    \/ Retention

Spec == Init /\ [][Next]_vars

\* Creation of QR codes, from an empty table.
NextQrCreate == \E p \in Procs : create_qr_code(p)

SpecQrCreate == Init /\ [][NextQrCreate]_vars

\* The reads of one QR code.
NextQrAccess ==
    \E p \in Procs : get_qr_code(p) \/ get_qr_image(p) \/ get_qr_analytics(p)

SpecQrAccess == InitQr /\ [][NextQrAccess]_vars

\* Management of a QR code, and the public redirect.
NextQrManage ==
    \E p \in Procs : update_qr_code(p) \/ delete_qr_code(p) \/ redirect_qr(p)

SpecQrManage == InitQr /\ [][NextQrManage]_vars

\* The analytics request next to the requests that write the records.
NextReport == NextLog \/ get_region_analytics

SpecReport == Init /\ [][NextReport]_vars

\* ================================================================ claims

\* The requests that have called is_new_user_atomic, and those whose call
\* has ended (returned or raised).
Called(p) ==
    \/ req[p].kind = "claim"
    \/ req[p].kind = "click" /\ "prepare" \notin failed[p]
CallsFor(s) == {p \in Procs : Called(p) /\ req[p].session_id = s}
Ended(p) == Called(p) /\ is_new[p] # "unset"
Winners(s) == {p \in CallsFor(s) : is_new[p] = "true"}
NoStoreError(s) == \A p \in CallsFor(s) : failed[p] = {}
NeverPurged(s) == \A q \in purged : req[q].session_id # s
OwnRow(p) ==
    \E r \in session_first_seen : r.by = p /\ r.session_id = req[p].session_id

C2_Uniqueness ==
    \A s \in SessionIds : Cardinality(RowsOf(s)) <= 1

\* Two claim calls for one session id have both committed and ended, and the
\* table holds the one row.
C2_Witness ==
    \E p, q \in Procs :
        /\ p # q /\ Ended(p) /\ Ended(q)
        /\ req[p].session_id = req[q].session_id
        /\ failed[p] = {} /\ failed[q] = {}
        /\ Cardinality(RowsOf(req[p].session_id)) = 1

\* C3: a claim call for session id s that began after a call for s had
\* returned True does not return True, unless a purge has deleted the row of
\* that earlier call.
C3_Idempotence ==
    \A p \in Procs : \A q \in seen_new[p] :
        (Called(p) /\ Called(q) /\ req[q].session_id = req[p].session_id
            /\ q \notin purged)
          => is_new[p] # "true"

\* A later call with another action type and context has returned False
\* after an earlier call for the same session id returned True.
C3_Witness ==
    \E p \in Procs : \E q \in seen_new[p] :
        /\ Called(p) /\ Called(q)
        /\ req[q].session_id = req[p].session_id
        /\ req[q].action_type # req[p].action_type
        /\ req[q].branch_id # req[p].branch_id
        /\ q \notin purged
        /\ is_new[p] = "false"

\* A step of a claim call for session id A.
StepOf(p) == pc'[p] # pc[p]
OtherSessionUntouched(p) ==
    \A s \in SessionIds \ {req'[p].session_id} :
        /\ {r \in session_first_seen' : r.session_id = s} = RowsOf(s)
        /\ \A q \in Procs :
              (req[q].kind # "none" /\ req[q].session_id = s)
                => /\ pc'[q] = pc[q] /\ pending'[q] = pending[q]
                   /\ inserted'[q] = inserted[q] /\ is_new'[q] = is_new[q]
\* What the INSERT of p reports depends on the rows of its own session id
\* alone.
InsertDecidedByOwnKey(p) ==
    (pc'[p] = "c_commit" /\ pc[p] # "c_commit")
        => (inserted'[p] = "NULL") = (RowsOf(req'[p].session_id) # {})
\* Calls for two session ids, each the only call for its id, with no store
\* error, have both returned True once they ended.
BothNew ==
    \A p, q \in Procs :
        (/\ Ended(p) /\ Ended(q)
         /\ req[p].session_id # req[q].session_id
         /\ CallsFor(req[p].session_id) = {p}
         /\ CallsFor(req[q].session_id) = {q}
         /\ failed[p] = {} /\ failed[q] = {})
          => is_new[p] = "true" /\ is_new[q] = "true"

\* C4: claim calls for distinct session ids do not interfere: a step of a
\* call for A changes neither the rows nor the calls of another session id,
\* what its INSERT reports is decided by the rows of A alone, and calls for
\* two unclaimed session ids both return True.
C4_Independence ==
    /\ []BothNew
    /\ [][\A p \in Procs : (StepOf(p) /\ Called(p)')
              => OtherSessionUntouched(p) /\ InsertDecidedByOwnKey(p)]_vars

\* Calls for two session ids that overlapped have both returned True.
C4_Witness ==
    \E p, q \in Procs :
        /\ p < q /\ Called(p) /\ Called(q)
        /\ req[p].session_id # req[q].session_id
        /\ seen_new[q] = {}
        /\ is_new[p] = "true" /\ is_new[q] = "true"

\* C5 as stated: a claim call whose store calls all raised (the execute and
\* the rollback of the error handler) has returned False.
C5_DegradeSafe ==
    \A p \in Procs :
        (Called(p) /\ {"execute", "rollback"} \subseteq failed[p])
            => is_new[p] = "false"

\* C6: a claim call that has returned True has committed a row of its own
\* for its session id before: the row is in the table, or a purge has
\* deleted it since.
C6_DurableBeforeResult ==
    \A p \in Procs :
        (Called(p) /\ is_new[p] = "true") => (OwnRow(p) \/ p \in purged)

\* A call has returned True and its row is in the table.
C6_Witness ==
    \E p \in Procs : Called(p) /\ is_new[p] = "true" /\ OwnRow(p)

\* C7 as stated: a claim call that has returned False has left no committed
\* row of its own.
C7_NoPartialClaim ==
    \A p \in Procs : (Called(p) /\ is_new[p] = "false") => ~OwnRow(p)

\* The analytics records of a session id that are tagged new.
NewRecords(table, s) == {r \in table : r.session_id = s /\ r.is_new_user}

\* C8 as stated: over qr_scans and social_clicks together, at most one record
\* of a session id is tagged is_new_user = true.
C8_OneNewRecordPerSession ==
    \A s \in SessionIds :
        Cardinality(NewRecords(qr_scans, s))
            + Cardinality(NewRecords(social_clicks, s)) <= 1

\* C9 as stated: at most one QRScan record of a session id is tagged
\* is_new_user = true.
C9_OneNewScanPerSession ==
    \A s \in SessionIds : Cardinality(NewRecords(qr_scans, s)) <= 1

\* C10: every SocialClick row carries, as is_new_user, what the
\* is_new_user_atomic call of its request returned for the request's session
\* id, and a success response carries the same value and follows the row.
C10_RecordCarriesClaimResult ==
    /\ \A r \in social_clicks :
          /\ req[r.by].kind = "click"
          /\ r.session_id = req[r.by].session_id
          /\ is_new[r.by] \in {"true", "false"}
          /\ r.is_new_user = (is_new[r.by] = "true")
    /\ \A p \in Procs :
          (req[p].kind = "click" /\ resp[p].status = "success")
            => /\ resp[p].is_new_user = (is_new[p] = "true")
               /\ \E r \in social_clicks :
                     r.by = p /\ r.is_new_user = resp[p].is_new_user

\* Two clicks of one session id are recorded, the first tagged new and the
\* second tagged returning, each with a success response.
C10_Witness ==
    \E p, q \in Procs :
        /\ req[p].kind = "click" /\ req[q].kind = "click"
        /\ resp[p].status = "success" /\ resp[q].status = "success"
        /\ \E r \in social_clicks : r.by = p /\ r.is_new_user
        /\ \E r \in social_clicks : r.by = q /\ ~r.is_new_user

\* The SocialClick rows written by request p.
ClicksBy(p) == {r \in social_clicks : r.by = p}
\* A click whose claim could not be attempted (its db.execute raised) and
\* whose handler has returned.
ClaimUnattempted(p) ==
    req[p].kind = "click" /\ "execute" \in failed[p] /\ pc[p] = "done"

Decided(p) ==
    req[p].kind \in {"click", "scan"} /\ is_new[p] \in {"true", "false"}
\* The request carries no usable session id.
NoSessionSent(p) ==
    ~Truthy(Get(req[p].body, "")) /\ ~Truthy(Get(req[p].cookie, ""))

\* C12 as stated: the session id given to the new-vs-returning decision and
\* stored in an analytics record is a non-empty string, and it is a fresh id
\* when the request carried none, an empty or a null one.
C12_NonEmptySessionId ==
    /\ \A p \in Procs :
          Decided(p) => /\ Truthy(req[p].session_id)
                        /\ NoSessionSent(p) => req[p].session_id = Uuid(p)
    /\ \A r \in qr_scans \cup social_clicks : Truthy(r.session_id)

\* A run of cleanup_old_sessions: the one step that is neither a request's
\* nor the clock's.
PurgeStep == pc' = pc /\ now' = now

\* C13 as stated: a purge with age 0 removes the rows written before it (so
\* that a later claim for their session ids returns True again), and a
\* direct claim call, none of whose store calls raised, returns True exactly
\* when its INSERT found no row of its session id in the store.
C13_Scenario ==
    /\ [][/\ (PurgeStep /\ purge_days' = 0)
                => \A r \in session_first_seen :
                      r.created_at < now => r \notin session_first_seen'
           /\ \A p \in Procs : InsertDecidedByOwnKey(p)]_vars
    /\ [](\A p \in Procs :
             (req[p].kind = "claim" /\ Ended(p) /\ failed[p] = {})
                => ((is_new[p] = "true") <=> (inserted[p] = req[p].session_id)))

\* C14 as stated: a run of cleanup_old_sessions(days_old) deletes exactly the
\* rows whose created_at is older than days_old days and returns their number.
C14_PurgeResult ==
    [][PurgeStep =>
          /\ session_first_seen' =
                {r \in session_first_seen : ~(r.created_at < now - purge_days')}
          /\ deleted_count' =
                Cardinality(session_first_seen \ session_first_seen')]_vars

\* The session ids whose row is not older than the threshold of the last
\* purge run, no row of theirs having been purged.
Live(s) ==
    /\ NeverPurged(s)
    /\ \A r \in RowsOf(s) : r.created_at >= now - purge_days
\* A purge run leaves every row that is not older than its threshold, adds
\* none, and touches no claim call.
PurgeKeepsLive ==
    /\ \A r \in session_first_seen :
          r.created_at >= now - purge_days' => r \in session_first_seen'
    /\ session_first_seen' \subseteq session_first_seen
    /\ UNCHANGED <<pending, inserted, is_new>>
\* Once a purge has run, a live session id still has at most one row and at
\* most one winner, and a call that began after a winner returned does not
\* return True.
LiveSessionsCorrect ==
    purge_days >= 0 =>
        \A s \in SessionIds :
            Live(s) =>
                /\ Cardinality(RowsOf(s)) <= 1
                /\ Cardinality(Winners(s)) <= 1
                /\ \A p \in CallsFor(s) : \A q \in seen_new[p] \cap CallsFor(s) :
                      is_new[p] # "true"

\* C15: purge runs interleaved with claim calls do not disturb the live
\* sessions: a run removes no row younger than its threshold and changes no
\* call, and uniqueness, single winner and "already claimed returns False"
\* hold for every session id whose row is younger than the threshold.
C15_PurgeKeepsLiveSessions ==
    /\ []LiveSessionsCorrect
    /\ [][PurgeStep => PurgeKeepsLive]_vars

\* A purge run has deleted the older row of one session id and left the
\* younger row of another, whose call returned True.
C15_Witness ==
    \E p, q \in Procs :
        /\ Called(p) /\ Called(q) /\ p \in purged /\ deleted_count = 1
        /\ req[q].session_id # req[p].session_id
        /\ Live(req[q].session_id) /\ OwnRow(q) /\ is_new[q] = "true"
        /\ RowsOf(req[p].session_id) = {}

\* Every row carries what the call that inserted it was given.
RowIsWinners ==
    \A r \in session_first_seen :
        /\ Called(r.by) /\ inserted[r.by] = r.session_id
        /\ r.session_id = req[r.by].session_id
        /\ r.first_action_type = req[r.by].action_type
        /\ r.first_branch_id = req[r.by].branch_id
        /\ r.first_qr_code_id = req[r.by].qr_code_id
        /\ r.first_seen_at = r.created_at /\ r.created_at <= now
        /\ RowsOf(r.session_id) = {r}

\* C16: a claim row is never updated: it carries the values of the call that
\* inserted it, and every step of a claim call leaves every existing row as
\* it is, whatever action type and context the call carries.
C16_RowNeverUpdated ==
    /\ []RowIsWinners
    /\ [][~PurgeStep => session_first_seen \subseteq session_first_seen']_vars

\* A later call with another action type and context has ended for a session
\* id whose row still carries the values of the first call.
C16_Witness ==
    \E r \in session_first_seen : \E q \in CallsFor(r.session_id) :
        /\ r.by \in seen_new[q] /\ Ended(q)
        /\ req[q].action_type # r.first_action_type
        /\ req[q].branch_id # r.first_branch_id
        /\ req[q].qr_code_id # r.first_qr_code_id
        /\ r.first_action_type = req[r.by].action_type

\* A call whose INSERT found the row of its session id.
Duplicate(p) == Called(p) /\ inserted[p] = "NULL"

\* C17: a duplicate claim is a normal outcome: a call whose INSERT reported
\* no inserted row adds nothing to the store and returns False, and so does
\* a call whose execute raised (an integrity error) and was rolled back.
C17_DuplicateIsNormal ==
    \A p \in Procs :
        /\ Duplicate(p)
              => /\ pending[p] = {} /\ ~OwnRow(p)
                 /\ (Ended(p) /\ failed[p] = {}) => is_new[p] = "false"
        /\ (Called(p) /\ "execute" \in failed[p] /\ "rollback" \notin failed[p])
              => is_new[p] = "false" /\ pending[p] = {} /\ ~OwnRow(p)

\* A duplicate call has returned False beside the row of the first call.
C17_Witness ==
    \E p, q \in Procs :
        /\ Duplicate(q) /\ is_new[q] = "false" /\ failed[q] = {}
        /\ Called(p) /\ OwnRow(p) /\ req[p].session_id = req[q].session_id
        /\ session_first_seen = RowsOf(req[p].session_id)

RowsAfter(s) == {r \in session_first_seen' : r.session_id = s}
\* The commit of a call whose INSERT reported a row for s.
FirstInsertCommits(s) ==
    \E p \in Procs :
        /\ pc[p] = "c_commit" /\ pc'[p] = "c_read"
        /\ req[p].session_id = s /\ inserted[p] = s
        /\ RowsAfter(s) = pending[p]

\* C18: a session id goes from unclaimed to claimed only by the commit of a
\* call whose conditional INSERT succeeded, stays claimed with the same row
\* through every claim call, and goes back to unclaimed only by a purge run.
C18_ClaimedOnce ==
    [][\A s \in SessionIds :
          /\ (RowsOf(s) = {} /\ RowsAfter(s) # {}) => FirstInsertCommits(s)
          /\ (RowsOf(s) # {} /\ RowsAfter(s) # {}) => RowsAfter(s) = RowsOf(s)
          /\ (RowsOf(s) # {} /\ RowsAfter(s) = {}) => PurgeStep]_vars

\* A session id has been claimed, purged, and claimed again.
C18_Witness ==
    \E p, q \in Procs :
        /\ p \in purged /\ Called(q) /\ req[q].session_id = req[p].session_id
        /\ OwnRow(q) /\ is_new[p] = "true" /\ is_new[q] = "true"

\* A call that committed its row and whose result did not reach the caller.
ResultLost(p) == Called(p) /\ "read" \in failed[p] /\ OwnRow(p)

\* C19: when a claim call has committed its row and its result was lost, any
\* other call for the session id (a retry) does not return True, returns
\* False when its own store calls do not raise, and adds no second row.
C19_RetrySafe ==
    \A p, q \in Procs :
        (/\ p # q /\ ResultLost(p) /\ Called(q)
         /\ req[q].session_id = req[p].session_id /\ q \notin purged)
          => /\ is_new[q] # "true"
             /\ (Ended(q) /\ failed[q] = {}) => is_new[q] = "false"
             /\ ~OwnRow(q)
             /\ Cardinality(RowsOf(req[p].session_id)) = 1

\* The retry of a call whose result was lost found the committed row and
\* returned False.
C19_Witness ==
    \E p, q \in Procs :
        /\ p < q /\ ResultLost(p) /\ Duplicate(q)
        /\ req[q].session_id = req[p].session_id
        /\ failed[q] = {} /\ is_new[q] = "false"

\* C20: a logging request that has ended has answered with status "success"
\* or "error", and with "error" whenever an exception left its handler's
\* try body: a malformed body, a store failure in the claim, in the selects,
\* in the record insert or in its commit.
C20_NoBrokenPath ==
    \A p \in Procs :
        req[p].kind \in {"click", "scan"} =>
            /\ pc[p] = "done" => resp[p].status \in {"success", "error"}
            /\ pc[p] # "done" => resp[p] = NoResp
            /\ (failed[p] \cap {"prepare", "rollback", "select", "record"} # {}
                    \/ is_new[p] = "raised")
                  => pc[p] = "done" /\ resp[p].status = "error"

\* A click whose claim raised out of its rollback and a scan whose record
\* commit raised have both been answered with status "error".
C20_Witness ==
    \E p, q \in Procs :
        /\ req[p].kind = "click" /\ "rollback" \in failed[p]
        /\ req[q].kind = "scan" /\ "record" \in failed[q]
        /\ resp[p].status = "error" /\ resp[q].status = "error"

\* C21 as stated: a purge run never raises, and a run that failed (it
\* returned 0 over rows older than its threshold) has left every row in place.
C21_PurgeFailureHarmless ==
    [][PurgeStep =>
          /\ deleted_count' # RAISED
          /\ deleted_count' = 0 => session_first_seen' = session_first_seen]_vars

\* The order of the positions of a call of is_new_user_atomic.
ClaimOrder(l) ==
    CASE l = "idle" -> 0 [] l = "c_execute" -> 1 [] l = "c_commit" -> 2
      [] l = "c_read" -> 3 [] OTHER -> 4
\* One step of the call of p: it moves forward; its first store call is the
\* INSERT, made once; rows reach the table by its one commit only; and the
\* step in which a store call raised (and was rolled back) ends the call.
OneWriteStep(p) ==
    /\ ClaimOrder(pc[p]) < ClaimOrder(pc'[p])
    /\ ClaimOrder(pc[p]) < 2
          => (ClaimOrder(pc'[p]) = 2 \/ failed'[p] # failed[p])
    /\ inserted'[p] # inserted[p]
          => (inserted[p] = "unset" /\ pc'[p] = "c_commit")
    /\ pending'[p] # pending[p]
          => (pc'[p] = "c_commit" \/ pc[p] = "c_commit"
                \/ failed'[p] # failed[p])
    /\ session_first_seen' # session_first_seen
          => (pc[p] = "c_commit" /\ pc'[p] = "c_read"
                /\ session_first_seen' = session_first_seen \cup pending[p])
    /\ failed'[p] # failed[p] => ClaimOrder(pc'[p]) = 4

\* C22: each call of is_new_user_atomic (the steps between the handler's
\* call and its return) makes one conditional INSERT, with no
\* read before it and no retry, followed by one commit, or by one rollback
\* when a store call raised.
C22_OneAtomicWrite ==
    [][\A p \in Procs :
          (StepOf(p) /\ ClaimOrder(pc[p]) \in 1..3) => OneWriteStep(p)]_vars

\* One call has inserted, committed and returned True; another has ended by
\* the rollback after its commit raised.
C22_Witness ==
    \E p, q \in Procs :
        /\ Called(p) /\ failed[p] = {} /\ is_new[p] = "true" /\ OwnRow(p)
        /\ Called(q) /\ failed[q] = {"commit"} /\ is_new[q] = "false"
        /\ ~OwnRow(q)

\* The session id the priority rule gives request p.
NonEmpty(v) == v \notin {ABSENT, None, ""}
PriorityId(p) ==
    CASE NonEmpty(req[p].cookie) -> req[p].cookie
      [] ~NonEmpty(req[p].cookie) /\ NonEmpty(req[p].body) -> req[p].body
      [] OTHER -> Uuid(p)

\* C23: the session id of a click is the qr_session cookie when non-empty,
\* else the body's session_id when non-empty, else a fresh UUID that no other
\* request carries; the claim (its INSERT result and its row) and the
\* SocialClick record use that same id.
C23_SessionPriority ==
    \A p \in Procs :
        req[p].kind = "click" =>
            /\ req[p].session_id = PriorityId(p)
            /\ (~NonEmpty(req[p].cookie) /\ ~NonEmpty(req[p].body))
                  => \A q \in Procs \ {p} :
                        req[q].kind = "click"
                          => req[q].session_id # req[p].session_id
            /\ inserted[p] \in {"unset", "NULL", PriorityId(p)}
            /\ \A r \in pending[p] \cup {x \in session_first_seen : x.by = p} :
                  r.session_id = PriorityId(p)
            /\ \A r \in ClicksBy(p) : r.session_id = PriorityId(p)

\* A click carrying both a cookie and another id in its body is claimed and
\* recorded under the cookie, and a click carrying neither under a fresh id.
C23_Witness ==
    \E p, q \in Procs :
        /\ req[p].kind = "click" /\ req[q].kind = "click"
        /\ NonEmpty(req[p].cookie) /\ NonEmpty(req[p].body)
        /\ req[p].body # req[p].cookie
        /\ OwnRow(p) /\ \E r \in ClicksBy(p) : r.session_id = req[p].cookie
        /\ req[q].cookie = "" /\ req[q].body = None
        /\ OwnRow(q) /\ \E r \in ClicksBy(q) : r.session_id = Uuid(q)

\* C24 as stated: once a click whose claim returned True has been answered,
\* a SocialClick record of its session id tagged is_new_user = true is in the
\* store.
C24_NewRecordPersisted ==
    \A p \in Procs :
        (req[p].kind = "click" /\ is_new[p] = "true" /\ pc[p] = "done")
            => \E r \in social_clicks :
                  r.session_id = req[p].session_id /\ r.is_new_user

\* A finished QR request of one kind.
QrDone(p, kind) == pc[p] = "done" /\ req[p].kind = kind

\* u is a super admin or the user who created q.
OwnerOrAdmin(u, q) == u.is_super_admin \/ u.id = q.created_by

\* C25: get_qr_analytics returns the analytics of a QR code only to a super
\* admin or to the user who created the code; any other user gets an error.
C25_AnalyticsChecksOwnership ==
    \A p \in Procs :
        QrDone(p, "analytics") /\ resp[p].status = "200"
            => OwnerOrAdmin(req[p].user, resp[p].body)

\* Request p takes a step.
Steps(p) == pc'[p] # pc[p]

\* The rows of qr_codes a step adds, removes or rewrites.
Touched == (qr_codes \ qr_codes') \cup (qr_codes' \ qr_codes)

\* C26: target_url and is_active of a QR code are changed, and the code is
\* deleted, only by update and delete requests of a super admin or of the
\* user who created it; the request of any other user leaves the table as it
\* is and ends with 403 (with 500 when its SELECT raised).
C26_OwnerMutatesOnly ==
    [][/\ qr_codes' # qr_codes =>
            \E p \in Procs :
                /\ Steps(p)
                /\ req[p].kind \in {"update", "delete"}
                /\ \A q \in Touched :
                       q.id = req[p].qr_id /\ OwnerOrAdmin(req[p].user, q)
       /\ \A p \in Procs :
            Steps(p) /\ req'[p].kind \in {"update", "delete"} =>
                \A q \in QrById(req'[p].qr_id) :
                    ~OwnerOrAdmin(req'[p].user, q) =>
                        /\ qr_codes' = qr_codes
                        /\ pc'[p] = "done"
                        /\ resp'[p].status =
                              IF failed'[p] = {} THEN "403" ELSE "500"]_vars

\* A user who did not create the code was refused, and the super admin
\* deactivated it.
C26_Witness ==
    \E p, o \in Procs :
        /\ QrDone(p, "update") /\ req[p].user.id = 2 /\ req[p].qr_id = 1
        /\ resp[p].status = "403"
        /\ QrDone(o, "update") /\ req[o].user.id = 3
        /\ resp[o].status = "200"
        /\ qr_codes = {[FirstQr EXCEPT !.is_active = FALSE]}

\* The create requests for code c.
Creators(c) == {p \in Procs : req[p].kind = "create" /\ req[p].code = c}

\* C27: for any interleaving of create_qr_code requests with the same code
\* (none of whose store calls fails), at most one row has the code, exactly
\* one request succeeds with 201 and every other request gets 400.
C27_OneCreateSucceeds ==
    \A c \in Codes :
        /\ Cardinality(QrByCode(c)) <= 1
        /\ (/\ Creators(c) # {}
            /\ \A p \in Creators(c) : pc[p] = "done" /\ failed[p] = {})
               => \E w \in Creators(c) :
                      /\ resp[w].status = "201"
                      /\ \A o \in Creators(c) \ {w} : resp[o].status = "400"

\* Request p is served by redirect_qr in this step.
Redirects(p) == pc[p] = "idle" /\ pc'[p] = "done" /\ req'[p].kind = "redirect"

\* Some update request deactivated code c / activated it again.
Deactivated(c) ==
    \E p \in Procs :
        /\ QrDone(p, "update") /\ resp[p].status = "200"
        /\ resp[p].body.code = c /\ ~resp[p].body.is_active

Reactivated(c) ==
    \E p \in Procs :
        /\ req[p].kind = "update" /\ "is_active" \in DOMAIN req[p].update
        /\ req[p].update.is_active

C29_TotalsComplete ==
    report.pc = "done" =>
        RegionAnalytics.new_users + RegionAnalytics.returning_users
            = RegionAnalytics.combined_total

====
